---- MODULE Spec2Model ----
(***************************************************************************)
(* Model of repyblik: the `token get` confirmation poll (cli.py 40-82,     *)
(* api.py 35-112), the `articles fetch` incremental synchronisation        *)
(* (cli.py 105-115, 141-200, api.py 114-173) and the stand-alone           *)
(* TokenDispenser (token.py 29-81).                                        *)
(*                                                                         *)
(* Wall-clock time in the token part is counted in whole seconds.  Publish *)
(* times in the fetch part are counted in ticks, Ticks ticks to a second,  *)
(* so that sub-second publish times exist.                                 *)
(***************************************************************************)
EXTENDS Integers, Sequences, FiniteSets, TLC

\* ---------------------------------------------------------------- bounds
MaxWindow == 7        \* largest expiresAt - requestTime a challenge carries (s)
MaxSkew == 3          \* how far expiresAt may lie before requestTime (s)
MaxLatency == 1       \* longest time a gateway call takes (s)
MaxTime == 3          \* publish times range over 1..MaxTime (ticks)
MaxInitTime == 1      \* a checkpoint found at the start holds a time in 0..MaxInitTime
MaxArticles == 2      \* most articles the gateway ever holds
MaxFirst == 2         \* largest --first option tried
MaxRuns == 2          \* `articles fetch` invocations per behaviour
Ticks == 2            \* ticks per second

\* ------------------------------------------------------ program constants
POLL_FREQUENCY == 3   \* cli.py:12, seconds

\* ------------------------------------------------------------ arithmetic
Abs(x) == IF x < 0 THEN -x ELSE x
FloorDiv(a, b) == a \div b
CeilDiv(a, b) == -((-a) \div b)
Min(a, b) == IF a < b THEN a ELSE b

VARIABLES
    \* --- persisted state
    tokenFile,     \* TOKENS_DIR / email: Absent or the secret it holds
    ckpt,          \* <directory>/.last: [exists, text, r, w]
    dirExists,     \* the download directory exists
    files,         \* names of the PDF files in the download directory
    \* --- remote gateway
    published,     \* the articles the gateway holds
    \* --- `token get` invocation
    tpc,           \* position in token_get
    overwrite,     \* the --overwrite flag
    apiToken,      \* RepublikApi._token ("" when none)
    now,           \* local clock, seconds
    requestTime,   \* clock when the signIn request was sent
    expiresAt,     \* signin_data.expiration_date
    barLength,     \* length of the progress bar (iterations of the loop)
    iter,          \* iterations of the loop started so far
    probes,        \* get_my_id calls made by the loop
    gotId,         \* some probe of the loop returned non-null
    tout,          \* messages echoed by token_get
    terr,          \* how token_get ended: "none" or the exception raised
    tokenWrites,   \* writes of the token file by this invocation
    tokenFileBefore, \* tokenFile when the invocation started
    signinResp,    \* the signIn response request_token received
    tsent,         \* gateway requests sent by this invocation: [op, token]
    \* --- `articles fetch` invocation
    fpc,           \* position in articles_fetch
    runs,          \* invocations started
    mode,          \* article query issued: "none", "since", "bootstrap"
    queries,       \* number of article queries issued by this invocation
    last,          \* parsed checkpoint (ticks), -1 when none was parsed
    since,         \* lower bound sent with the since query, -1 when none
    batch,         \* `articles`: the descriptors the gateway returned
    idx,           \* position in `for article in articles` (1-based)
    okDownloads,   \* download_pdf calls of this invocation that returned
    cdnCalls,      \* download_pdf calls of this invocation
    ckptWrites,    \* writes of .last by this invocation
    ckptBefore,    \* .last as it was when the invocation started
    dirBefore,     \* dirExists when the invocation started
    filesBefore,   \* files when the invocation started
    fout,          \* messages echoed by articles_fetch
    ferr,          \* how articles_fetch ended: "none" or the exception raised
    fsent,         \* gateway requests sent by this invocation: [op, token]
    requested,     \* paths asked of the CDN by this invocation, in order
    \* --- a TokenDispenser object (token.py)
    dToken,        \* TokenDispenser._token ("" for None)
    dBefore,       \* _token when the last request() was called
    dResp,         \* the signIn response the last request() received
    dErr           \* how the last request() ended: "none" or the exception

persistVars == <<tokenFile, ckpt, dirExists, files, published>>
tokenVars == <<tpc, overwrite, apiToken, now, requestTime, expiresAt, barLength,
               iter, probes, gotId, tout, terr, tokenWrites, tokenFileBefore,
               signinResp, tsent>>
fetchVars == <<fpc, runs, mode, queries, last, since, batch, idx, okDownloads,
               cdnCalls, ckptWrites, ckptBefore, dirBefore, filesBefore, fout, ferr,
               fsent, requested>>
dispVars == <<dToken, dBefore, dResp, dErr>>
vars == <<persistVars, tokenVars, fetchVars, dispVars>>


\* ===================================================================
\* Token lifecycle: RepublikApi.request_token and cli.token_get
\* ===================================================================
Absent == "<absent>"       \* the token file does not exist
EmptyToken == ""           \* an empty token file; the token of a new client
OldSecret == "sid-old"     \* secret left in the token file by an earlier run
NewSecret == "sid-new"     \* the connect.sid cookie the gateway mints

\* A signIn response as request_token sees it.
Responses ==
    [status : {"ok", "fail"}, cookie : BOOLEAN, signIn : BOOLEAN,
     expiry : {"ok", "bad"}, tokenType : {"APP", "EMAIL_TOKEN", "OTHER"}]

OkResponses ==
    [status : {"ok"}, cookie : {TRUE}, signIn : {TRUE},
     expiry : {"ok"}, tokenType : {"APP", "EMAIL_TOKEN"}]

\* No signIn response received (yet).
NoResponse ==
    [status |-> "none", cookie |-> FALSE, signIn |-> FALSE,
     expiry |-> "ok", tokenType |-> "OTHER"]

\* A request as the gateway receives it: the operation and the connect.sid
\* cookie of the session that sent it ("" when the session has none).
Request(op, token) == [op |-> op, token |-> token]

\* Mutant of VerifyTokenAvailable: the check lets an empty token pass.
VerifyTokenAvailableLax(token) == TRUE

\* api.py 49-53: _verify_token_available raises unless a token is held.
VerifyTokenAvailable(token) == token # EmptyToken

\* api.py 95-98: the token property, the token held or RuntimeError.
TokenProperty(token) == IF VerifyTokenAvailable(token) THEN token ELSE "RuntimeError"

\* TokenType(value): enum lookup by value, ValueError for an unknown value.
TokenTypeKnown(v) == v \in {"APP", "EMAIL_TOKEN"}

\* The exception request_token ends with, "ok" when it returns.
RequestTokenResult(resp) ==
    IF resp.status = "fail" THEN "HTTPError"
    ELSE IF ~resp.cookie THEN "TokenFetchError"
    ELSE IF ~resp.signIn THEN "TokenFetchError"
    ELSE IF resp.expiry = "bad" THEN "ParserError"
    ELSE IF ~TokenTypeKnown(resp.tokenType) THEN "ValueError"
    ELSE "ok"

\* api.py 70-91: _set_token is the last statement before the return, so the
\* client holds `secret` after a request that returned and `held` otherwise.
HeldAfterRequestToken(held, resp, secret) ==
    IF RequestTokenResult(resp) = "ok" THEN secret ELSE held

\* signin_data.expiration_date.diff() // POLL_FREQUENCY: pendulum's diff() is
\* absolute by default, and Period // Duration is integer floor division.
ProgressLength(expires, clock) == FloorDiv(Abs(expires - clock), POLL_FREQUENCY)

TokenIdle == tpc \in {"idle", "done"}

\* A fresh token_get invocation: nothing echoed, nothing written, clock origin.
TokenReset(ow) ==
    /\ overwrite' = ow
    /\ requestTime' = 0
    /\ barLength' = -1
    /\ iter' = 0
    /\ probes' = 0
    /\ gotId' = FALSE
    /\ tout' = {}
    /\ tokenWrites' = 0
    /\ tokenFileBefore' = tokenFile

\* cli.py 46-49: the token file exists and --overwrite was not given.
TokenGetRefused ==
    /\ TokenIdle
    /\ tokenFile # Absent
    /\ TokenReset(FALSE)
    /\ apiToken' = EmptyToken
    /\ now' = 0
    /\ expiresAt' = 0
    /\ signinResp' = NoResponse
    /\ tsent' = {}
    /\ terr' = "BadArgumentUsage"
    /\ tpc' = "done"
    /\ UNCHANGED <<persistVars, fetchVars, dispVars>>

\* Mutant of TokenGetRequest: the guard of cli.py 46 is not applied.
TokenGetRequestUnguarded(ow, resp, window, latency) ==
    /\ TokenIdle
    /\ RequestTokenResult(resp) = "ok"
    /\ TokenReset(ow)
    /\ now' = latency
    /\ apiToken' = HeldAfterRequestToken(EmptyToken, resp, NewSecret)
    /\ expiresAt' = window
    /\ signinResp' = resp
    /\ tsent' = {Request("signIn", EmptyToken)}
    /\ terr' = "none"
    /\ tpc' = "bar"
    /\ UNCHANGED <<persistVars, fetchVars, dispVars>>

\* cli.py 51-64 with api.py 55-93: a new client requests a challenge and
\* request_token returns; the response carries expiresAt = requestTime + window
\* (any timestamp pendulum.parse accepts, one already past included) and is
\* in hand `latency` seconds after the request was sent.  The signIn request
\* goes through requests.post, outside the session: it carries no cookie.
TokenGetRequest(ow, resp, window, latency) ==
    /\ TokenIdle
    /\ ~(tokenFile # Absent /\ ~ow)
    /\ RequestTokenResult(resp) = "ok"
    /\ TokenReset(ow)
    /\ now' = latency
    /\ apiToken' = HeldAfterRequestToken(EmptyToken, resp, NewSecret)
    /\ expiresAt' = window
    /\ signinResp' = resp
    /\ tsent' = {Request("signIn", EmptyToken)}
    /\ terr' = "none"
    /\ tpc' = "bar"
    /\ UNCHANGED <<persistVars, fetchVars, dispVars>>

\* cli.py 51-52 with api.py 55-93: request_token raises; _set_token (api.py 91)
\* was not reached and the exception leaves token_get.
TokenGetRequestFailed(ow, resp) ==
    /\ TokenIdle
    /\ ~(tokenFile # Absent /\ ~ow)
    /\ RequestTokenResult(resp) # "ok"
    /\ TokenReset(ow)
    /\ now' = 0
    /\ apiToken' = HeldAfterRequestToken(EmptyToken, resp, NewSecret)
    /\ expiresAt' = 0
    /\ signinResp' = resp
    /\ tsent' = {Request("signIn", EmptyToken)}
    /\ terr' = RequestTokenResult(resp)
    /\ tpc' = "done"
    /\ UNCHANGED <<persistVars, fetchVars, dispVars>>

\* cli.py 66-69: the progress bar's length is computed, once.
TokenStartWait ==
    /\ tpc = "bar"
    /\ barLength' = ProgressLength(expiresAt, now)
    /\ tpc' = "loop"
    /\ UNCHANGED <<overwrite, apiToken, now, requestTime, expiresAt, iter, probes,
                   gotId, tout, terr, tokenWrites, tokenFileBefore, signinResp, tsent>>
    /\ UNCHANGED <<persistVars, fetchVars, dispVars>>

\* cli.py 70-71: the next iteration starts with a sleep.
TokenSleep ==
    /\ tpc = "loop"
    /\ iter < barLength
    /\ iter' = iter + 1
    /\ now' = now + POLL_FREQUENCY
    /\ tpc' = "probe"
    /\ UNCHANGED <<overwrite, apiToken, requestTime, expiresAt, barLength, probes,
                   gotId, tout, terr, tokenWrites, tokenFileBefore, signinResp, tsent>>
    /\ UNCHANGED <<persistVars, fetchVars, dispVars>>

\* Mutant of AfterProbe: the loop goes on whatever the probe answered.
AfterProbeNoBreak(answer) == "loop"

\* What the loop does with the probe's answer (cli.py 72-73): break on non-null.
AfterProbe(answer) == IF answer = "id" THEN "after" ELSE "loop"

\* cli.py 72 with api.py 100-112: get_my_id answers an id or null.
TokenProbe(answer, latency) ==
    /\ tpc = "probe"
    /\ VerifyTokenAvailable(apiToken)
    /\ probes' = probes + 1
    /\ tsent' = tsent \cup {Request("me", apiToken)}
    /\ now' = now + latency
    /\ gotId' = (gotId \/ answer = "id")
    /\ tpc' = AfterProbe(answer)
    /\ UNCHANGED <<overwrite, apiToken, requestTime, expiresAt, barLength, iter,
                   tout, terr, tokenWrites, tokenFileBefore, signinResp>>
    /\ UNCHANGED <<persistVars, fetchVars, dispVars>>

\* Mutant of TokenProbeFailed: the failure is noted and the poll goes on.
TokenProbeFailedRetried(latency) ==
    /\ tpc = "probe"
    /\ VerifyTokenAvailable(apiToken)
    /\ probes' = probes + 1
    /\ tsent' = tsent \cup {Request("me", apiToken)}
    /\ now' = now + latency
    /\ terr' = "HTTPError"
    /\ tpc' = "loop"
    /\ UNCHANGED <<overwrite, apiToken, requestTime, expiresAt, barLength, iter,
                   gotId, tout, tokenWrites, tokenFileBefore, signinResp>>
    /\ UNCHANGED <<persistVars, fetchVars, dispVars>>

\* api.py 103-108: the probe's transport fails; the exception leaves token_get.
TokenProbeFailed(latency) ==
    /\ tpc = "probe"
    /\ VerifyTokenAvailable(apiToken)
    /\ probes' = probes + 1
    /\ tsent' = tsent \cup {Request("me", apiToken)}
    /\ now' = now + latency
    /\ terr' = "HTTPError"
    /\ tpc' = "done"
    /\ UNCHANGED <<overwrite, apiToken, requestTime, expiresAt, barLength, iter,
                   gotId, tout, tokenWrites, tokenFileBefore, signinResp>>
    /\ UNCHANGED <<persistVars, fetchVars, dispVars>>

\* cli.py 74-75: the for loop ran out; its else clause only echoes.
TokenLoopElse ==
    /\ tpc = "loop"
    /\ iter = barLength
    /\ tout' = tout \cup {"Token could not be verified"}
    /\ tpc' = "after"
    /\ UNCHANGED <<overwrite, apiToken, now, requestTime, expiresAt, barLength,
                   iter, probes, gotId, terr, tokenWrites, tokenFileBefore,
                   signinResp, tsent>>
    /\ UNCHANGED <<persistVars, fetchVars, dispVars>>

\* cli.py 77-82: reached after the break and after the else clause alike.
TokenFinish ==
    /\ tpc = "after"
    /\ tout' = tout \cup {"Token confirmed"}
    /\ tokenFile' = TokenProperty(apiToken)
    /\ tokenWrites' = tokenWrites + 1
    /\ tpc' = "done"
    /\ UNCHANGED <<overwrite, apiToken, now, requestTime, expiresAt, barLength,
                   iter, probes, gotId, terr, tokenFileBefore, signinResp, tsent>>
    /\ UNCHANGED <<ckpt, dirExists, files, published, fetchVars, dispVars>>

\* The process of the invocation ends; nothing of it outlives the token file.
TokenExit ==
    /\ tpc = "done"
    /\ tpc' = "idle"
    /\ overwrite' = FALSE
    /\ apiToken' = EmptyToken
    /\ now' = 0
    /\ requestTime' = 0
    /\ expiresAt' = 0
    /\ barLength' = -1
    /\ iter' = 0
    /\ probes' = 0
    /\ gotId' = FALSE
    /\ tout' = {}
    /\ terr' = "none"
    /\ tokenWrites' = 0
    /\ tokenFileBefore' = Absent
    /\ signinResp' = NoResponse
    /\ tsent' = {}
    /\ UNCHANGED <<persistVars, fetchVars, dispVars>>

NextToken ==
    \/ TokenGetRefused
    \/ \E ow \in BOOLEAN, resp \in OkResponses,
          window \in (0 - MaxSkew)..MaxWindow, latency \in 0..MaxLatency :
          TokenGetRequest(ow, resp, window, latency)
    \/ \E ow \in BOOLEAN, resp \in Responses : TokenGetRequestFailed(ow, resp)
    \/ TokenStartWait
    \/ TokenSleep
    \/ \E answer \in {"id", "null"}, latency \in 0..MaxLatency :
          TokenProbe(answer, latency)
    \/ \E latency \in 0..MaxLatency : TokenProbeFailed(latency)
    \/ TokenLoopElse
    \/ TokenFinish
    \/ TokenExit


\* ===================================================================
\* Incremental synchronisation: cli.articles, cli.articles_fetch,
\* RepublikApi.get_articles_since / get_last_articles, RepublikCDN
\* ===================================================================
Titles == {"a", "b"}
Paths == 1..MaxArticles

\* ArticleData (api.py 22-26); publication_date is an instant, in ticks.
ArticleData == [title : Titles, path : Paths, date : 1..MaxTime]

Second == Ticks            \* pendulum.Duration(seconds=1)

\* DateTime.to_rfc3339_string(): the text carries whole seconds and a fraction.
ToRfc3339(t) == <<t \div Ticks, t % Ticks>>

\* Text that pendulum.parse rejects (ParserError).
Garbage == <<>>

Parseable(text) == Len(text) = 2 /\ text[2] < Ticks

\* pendulum.parse(text) for parseable text.
ParseDate(text) == text[1] * Ticks + text[2]

\* The .last file: absent, or text with the process's read/write permission.
NoCkpt == [exists |-> FALSE, text |-> Garbage, r |-> FALSE, w |-> FALSE]
CkptFile(text, r, w) == [exists |-> TRUE, text |-> text, r |-> r, w |-> w]

\* cli.py 193: directory / f"{article.publication_date} - {article.title}.pdf"
Destination(article) == <<ToRfc3339(article.date), article.title>>

\* --- the remote gateway's answers -------------------------------------
Orderings(S) ==
    {s \in [1..Cardinality(S) -> S] :
        \A i, j \in 1..Cardinality(S) : i # j => s[i] # s[j]}
Ascending(s) == \A i \in 1..(Len(s) - 1) : s[i].date <= s[i + 1].date
Descending(s) == \A i \in 1..(Len(s) - 1) : s[i].date >= s[i + 1].date

\* A list sorted on publishedAt; the queries name no direction.
SortedByPublishedAt(S) == {s \in Orderings(S) : Ascending(s) \/ Descending(s)}

\* search(filter: {publishedAt: {from: $since}}, sort: {key: publishedAt})
GatewaySearch(from) == SortedByPublishedAt({a \in published : a.date >= from})

\* documents(feed: true, first: $first): the `first` most recent documents
MostRecent(first) ==
    {M \in SUBSET published :
        /\ Cardinality(M) = Min(first, Cardinality(published))
        /\ \A a \in M, b \in published \ M : a.date >= b.date}
GatewayDocuments(first) == UNION {SortedByPublishedAt(M) : M \in MostRecent(first)}

\* A new article appears on the gateway (between invocations), under a path
\* of its own.
Publish(title, date) ==
    /\ fpc = "idle"
    /\ Cardinality(published) < MaxArticles
    /\ published' = published \cup
          {[title |-> title, path |-> Cardinality(published) + 1, date |-> date]}
    /\ UNCHANGED <<tokenFile, ckpt, dirExists, files, tokenVars, fetchVars, dispVars>>

\* --- articles_fetch -----------------------------------------------------
FetchIdle == fpc = "idle" /\ runs < MaxRuns

\* A fresh invocation: counters cleared, the persisted state remembered.
FetchReset ==
    /\ runs' = runs + 1
    /\ idx' = 1
    /\ okDownloads' = 0
    /\ cdnCalls' = 0
    /\ ckptWrites' = 0
    /\ ckptBefore' = ckpt
    /\ dirBefore' = dirExists
    /\ filesBefore' = files
    /\ requested' = <<>>

\* The invocation ends before any article query (no `last`, no `articles`),
\* having sent the requests in `sent`.
EndsBeforeQuery(error, sent) ==
    /\ FetchReset
    /\ mode' = "none"
    /\ queries' = 0
    /\ last' = -1
    /\ since' = -1
    /\ batch' = <<>>
    /\ fout' = {}
    /\ ferr' = error
    /\ fsent' = sent
    /\ fpc' = "done"
    /\ UNCHANGED <<persistVars, tokenVars, dispVars>>

\* cli.py 110-115: the articles group cannot read the token file.
ArticlesNoToken ==
    /\ FetchIdle
    /\ tokenFile = Absent
    /\ EndsBeforeQuery("BadArgumentUsage", {})

\* cli.py 111, 164, 168 with api.py 36-53, 101: the token file is empty, the
\* client is built without a token and get_my_id raises before any request.
FetchNoCredential ==
    /\ FetchIdle
    /\ tokenFile # Absent
    /\ ~VerifyTokenAvailable(tokenFile)
    /\ EndsBeforeQuery("RuntimeError", {})

\* cli.py 168-169: get_my_id answers null, or its transport fails.
FetchLoginFailed(answer) ==
    /\ FetchIdle
    /\ tokenFile # Absent
    /\ VerifyTokenAvailable(tokenFile)
    /\ EndsBeforeQuery(IF answer = "null" THEN "BadArgumentUsage" ELSE "HTTPError",
                       {Request("me", tokenFile)})

\* cli.py 174: .last is readable but pendulum.parse rejects its text; the
\* ParserError is not among the exceptions line 181 catches.
FetchUnparseable ==
    /\ FetchIdle
    /\ tokenFile # Absent
    /\ VerifyTokenAvailable(tokenFile)
    /\ ckpt.exists /\ ckpt.r /\ ~Parseable(ckpt.text)
    /\ EndsBeforeQuery("ParserError", {Request("me", tokenFile)})

\* Mutant of NothingNew: the directory is made before the batch is looked at.
NothingNewAfterMkdir(message) ==
    /\ fout' = {message}
    /\ ferr' = "none"
    /\ fpc' = "done"
    /\ dirExists' = TRUE
    /\ UNCHANGED <<ckpt, files>>

\* cli.py 177-179 and 184-186: `if not articles: echo; return`.
NothingNew(message) ==
    /\ fout' = {message}
    /\ ferr' = "none"
    /\ fpc' = "done"
    /\ UNCHANGED <<ckpt, dirExists, files>>

\* cli.py 188-190: directory.mkdir(parents=True, exist_ok=True), then the loop.
StartDownloads ==
    /\ fout' = {}
    /\ ferr' = "none"
    /\ fpc' = "download"
    /\ dirExists' = TRUE
    /\ UNCHANGED <<ckpt, files>>

\* cli.py 174-179: incremental mode, the query answered.
FetchSince ==
    /\ FetchIdle
    /\ tokenFile # Absent
    /\ VerifyTokenAvailable(tokenFile)
    /\ ckpt.exists /\ ckpt.r /\ Parseable(ckpt.text)
    /\ LET parsed == ParseDate(ckpt.text) IN
       /\ last' = parsed
       /\ since' = parsed + Second
       /\ \E articles \in GatewaySearch(parsed + Second) :
             /\ batch' = articles
             /\ IF articles = <<>> THEN NothingNew("No new articles published since")
                                  ELSE StartDownloads
    /\ FetchReset
    /\ mode' = "since"
    /\ queries' = 1
    /\ fsent' = {Request("me", tokenFile), Request("search", tokenFile)}
    /\ UNCHANGED <<tokenFile, published, tokenVars, dispVars>>

\* cli.py 175 with api.py 155: the since query's transport fails.
FetchSinceFailed ==
    /\ FetchIdle
    /\ tokenFile # Absent
    /\ VerifyTokenAvailable(tokenFile)
    /\ ckpt.exists /\ ckpt.r /\ Parseable(ckpt.text)
    /\ FetchReset
    /\ last' = ParseDate(ckpt.text)
    /\ since' = ParseDate(ckpt.text) + Second
    /\ mode' = "since"
    /\ queries' = 1
    /\ fsent' = {Request("me", tokenFile), Request("search", tokenFile)}
    /\ batch' = <<>>
    /\ fout' = {}
    /\ ferr' = "HTTPError"
    /\ fpc' = "done"
    /\ UNCHANGED <<persistVars, tokenVars, dispVars>>

\* cli.py 181-186: FileNotFoundError or PermissionError, bootstrap mode.
FetchBootstrap(first) ==
    /\ FetchIdle
    /\ tokenFile # Absent
    /\ VerifyTokenAvailable(tokenFile)
    /\ ~ckpt.exists \/ ~ckpt.r
    /\ \E articles \in GatewayDocuments(first) :
          /\ batch' = articles
          /\ IF articles = <<>> THEN NothingNew("No articles found")
                               ELSE StartDownloads
    /\ FetchReset
    /\ last' = -1
    /\ since' = -1
    /\ mode' = "bootstrap"
    /\ queries' = 1
    /\ fsent' = {Request("me", tokenFile), Request("documents", tokenFile)}
    /\ UNCHANGED <<tokenFile, published, tokenVars, dispVars>>

\* cli.py 182 with api.py 131: the bootstrap query's transport fails.
FetchBootstrapFailed ==
    /\ FetchIdle
    /\ tokenFile # Absent
    /\ VerifyTokenAvailable(tokenFile)
    /\ ~ckpt.exists \/ ~ckpt.r
    /\ FetchReset
    /\ last' = -1
    /\ since' = -1
    /\ mode' = "bootstrap"
    /\ queries' = 1
    /\ fsent' = {Request("me", tokenFile), Request("documents", tokenFile)}
    /\ batch' = <<>>
    /\ fout' = {}
    /\ ferr' = "HTTPError"
    /\ fpc' = "done"
    /\ UNCHANGED <<persistVars, tokenVars, dispVars>>


\* Where the for loop of cli.py 192 stands after the article at idx.
AfterArticle == IF idx = Len(batch) THEN "write" ELSE "download"

\* cli.py 192-198 with api.py 166-173: one article is downloaded.
Download ==
    /\ fpc = "download"
    /\ cdnCalls' = cdnCalls + 1
    /\ requested' = Append(requested, batch[idx].path)
    /\ okDownloads' = okDownloads + 1
    /\ files' = files \cup {Destination(batch[idx])}
    /\ idx' = idx + 1
    /\ fpc' = AfterArticle
    /\ UNCHANGED <<tokenFile, ckpt, dirExists, published, tokenVars, dispVars>>
    /\ UNCHANGED <<runs, mode, queries, last, since, batch, ckptWrites, ckptBefore,
                   dirBefore, filesBefore, fout, ferr, fsent>>

\* Mutant of DownloadFailed: the failure is noted and the loop goes on.
DownloadFailedSwallowed(kind) ==
    /\ fpc = "download"
    /\ cdnCalls' = cdnCalls + 1
    /\ requested' = Append(requested, batch[idx].path)
    /\ files' = IF kind = "stream" THEN files \cup {Destination(batch[idx])} ELSE files
    /\ ferr' = "DownloadError"
    /\ idx' = idx + 1
    /\ fpc' = AfterArticle
    /\ UNCHANGED <<tokenFile, ckpt, dirExists, published, tokenVars, dispVars>>
    /\ UNCHANGED <<runs, mode, queries, last, since, batch, okDownloads,
                   ckptWrites, ckptBefore, dirBefore, filesBefore, fout, fsent>>

\* Mutant of DownloadFailed: the files of the batch are removed on failure.
DownloadFailedRolledBack(kind) ==
    /\ fpc = "download"
    /\ cdnCalls' = cdnCalls + 1
    /\ requested' = Append(requested, batch[idx].path)
    /\ files' = filesBefore
    /\ ferr' = "DownloadError"
    /\ fpc' = "done"
    /\ UNCHANGED <<tokenFile, ckpt, dirExists, published, tokenVars, dispVars>>
    /\ UNCHANGED <<runs, mode, queries, last, since, batch, idx, okDownloads,
                   ckptWrites, ckptBefore, dirBefore, filesBefore, fout, fsent>>

\* api.py 170-173: raise_for_status raises ("status", before the file is
\* opened) or the stream breaks ("stream", the file already created); the
\* exception leaves articles_fetch.
DownloadFailed(kind) ==
    /\ fpc = "download"
    /\ cdnCalls' = cdnCalls + 1
    /\ requested' = Append(requested, batch[idx].path)
    /\ files' = IF kind = "stream" THEN files \cup {Destination(batch[idx])} ELSE files
    /\ ferr' = "DownloadError"
    /\ fpc' = "done"
    /\ UNCHANGED <<tokenFile, ckpt, dirExists, published, tokenVars, dispVars>>
    /\ UNCHANGED <<runs, mode, queries, last, since, batch, idx, okDownloads,
                   ckptWrites, ckptBefore, dirBefore, filesBefore, fout, fsent>>

\* cli.py 200: articles[0].publication_date is written to .last.
WriteCheckpoint ==
    /\ fpc = "write"
    /\ ~ckpt.exists \/ ckpt.w
    /\ ckpt' = CkptFile(ToRfc3339(batch[1].date),
                        IF ckpt.exists THEN ckpt.r ELSE TRUE, TRUE)
    /\ ckptWrites' = ckptWrites + 1
    /\ fpc' = "done"
    /\ UNCHANGED <<tokenFile, dirExists, files, published, tokenVars, dispVars>>
    /\ UNCHANGED <<runs, mode, queries, last, since, batch, idx, okDownloads,
                   cdnCalls, ckptBefore, dirBefore, filesBefore, fout, ferr, fsent,
                   requested>>

\* cli.py 200: write_text on a .last the process may not write.
WriteCheckpointDenied ==
    /\ fpc = "write"
    /\ ckpt.exists /\ ~ckpt.w
    /\ ferr' = "PermissionError"
    /\ fpc' = "done"
    /\ UNCHANGED <<persistVars, tokenVars, dispVars>>
    /\ UNCHANGED <<runs, mode, queries, last, since, batch, idx, okDownloads,
                   cdnCalls, ckptWrites, ckptBefore, dirBefore, filesBefore, fout,
                   fsent, requested>>

\* The process of the invocation ends; nothing of it outlives the files.
FetchExit ==
    /\ fpc = "done"
    /\ fpc' = "idle"
    /\ mode' = "none"
    /\ queries' = 0
    /\ last' = -1
    /\ since' = -1
    /\ batch' = <<>>
    /\ idx' = 1
    /\ okDownloads' = 0
    /\ cdnCalls' = 0
    /\ ckptWrites' = 0
    /\ ckptBefore' = NoCkpt
    /\ dirBefore' = FALSE
    /\ filesBefore' = {}
    /\ fout' = {}
    /\ ferr' = "none"
    /\ fsent' = {}
    /\ requested' = <<>>
    /\ UNCHANGED <<runs, persistVars, tokenVars, dispVars>>

NextFetch ==
    \/ \E title \in Titles, date \in 1..MaxTime : Publish(title, date)
    \/ ArticlesNoToken
    \/ FetchNoCredential
    \/ \E answer \in {"null", "error"} : FetchLoginFailed(answer)
    \/ FetchUnparseable
    \/ FetchSince
    \/ FetchSinceFailed
    \/ \E first \in 1..MaxFirst : FetchBootstrap(first)
    \/ FetchBootstrapFailed
    \/ Download
    \/ \E kind \in {"status", "stream"} : DownloadFailed(kind)
    \/ WriteCheckpoint
    \/ WriteCheckpointDenied
    \/ FetchExit

\* ===================================================================
\* TokenDispenser (token.py), a client object used on its own
\* ===================================================================
NewerSecret == "sid-newer"    \* a second connect.sid cookie the gateway mints
Minted == {NewSecret, NewerSecret}

\* token.py 10-13, 72: TOKEN_STRING_TO_ENUM[value], KeyError for an unknown key.
TokenStringToEnumHas(v) == v \in {"APP", "EMAIL_TOKEN"}

\* The exception TokenDispenser.request ends with, "ok" when it returns.
DispenserRequestResult(resp) ==
    IF resp.status = "fail" THEN "HTTPError"
    ELSE IF ~resp.cookie THEN "TokenFetchError"
    ELSE IF ~resp.signIn THEN "TokenFetchError"
    ELSE IF resp.expiry = "bad" THEN "ParserError"
    ELSE IF ~TokenStringToEnumHas(resp.tokenType) THEN "TokenFetchError"
    ELSE "ok"

\* token.py 53-58: _token is assigned as soon as the cookie is read, before
\* the body, the expiry and the token type are looked at.
HeldAfterDispenserRequest(held, resp, secret) ==
    IF resp.status = "ok" /\ resp.cookie THEN secret ELSE held

\* token.py 40-76: request() on a dispenser, whatever it holds.
DispenserRequest(resp, secret) ==
    /\ dBefore' = dToken
    /\ dResp' = resp
    /\ dErr' = IF DispenserRequestResult(resp) = "ok"
                  THEN "none" ELSE DispenserRequestResult(resp)
    /\ dToken' = HeldAfterDispenserRequest(dToken, resp, secret)
    /\ UNCHANGED <<persistVars, tokenVars, fetchVars>>

NextDispenser == \E resp \in Responses, secret \in Minted : DispenserRequest(resp, secret)


\* ===================================================================
\* Initial state and specifications
\* ===================================================================
CkptTexts == {Garbage} \cup {ToRfc3339(t) : t \in 0..MaxInitTime}

Init ==
    /\ tokenFile \in {Absent, EmptyToken, OldSecret}
    /\ ckpt \in {NoCkpt} \cup
          {CkptFile(text, r, w) : text \in CkptTexts, r \in BOOLEAN, w \in BOOLEAN}
    /\ dirExists \in BOOLEAN
    /\ ckpt.exists => dirExists
    /\ tokenFile \in {Absent, EmptyToken} => ~dirExists
    /\ files = {}
    /\ published = {}
    /\ tpc = "idle"
    /\ overwrite = FALSE
    /\ apiToken = EmptyToken
    /\ now = 0
    /\ requestTime = 0
    /\ expiresAt = 0
    /\ barLength = -1
    /\ iter = 0
    /\ probes = 0
    /\ gotId = FALSE
    /\ tout = {}
    /\ terr = "none"
    /\ tokenWrites = 0
    /\ tokenFileBefore = Absent
    /\ signinResp = NoResponse
    /\ tsent = {}
    /\ fpc = "idle"
    /\ runs = 0
    /\ mode = "none"
    /\ queries = 0
    /\ last = -1
    /\ since = -1
    /\ batch = <<>>
    /\ idx = 1
    /\ okDownloads = 0
    /\ cdnCalls = 0
    /\ ckptWrites = 0
    /\ ckptBefore = NoCkpt
    /\ dirBefore = FALSE
    /\ filesBefore = {}
    /\ fout = {}
    /\ ferr = "none"
    /\ fsent = {}
    /\ requested = <<>>
    /\ dToken = EmptyToken
    /\ dBefore = EmptyToken
    /\ dResp = NoResponse
    /\ dErr = "none"

Next == NextToken \/ NextFetch \/ NextDispenser

\* token_get alone, the download directory untouched.
InitToken == Init /\ ~dirExists
\* articles_fetch alone.
InitFetch == Init

\* The challenge requests of the two client classes, nothing awaited: either
\* token_get's RepublikApi client or a TokenDispenser is exercised.
NextRequest ==
    \/ /\ dResp = NoResponse
       /\ \/ \E ow \in BOOLEAN, resp \in OkResponses,
                window \in (0 - MaxSkew)..MaxWindow, latency \in 0..MaxLatency :
                TokenGetRequest(ow, resp, window, latency)
          \/ \E ow \in BOOLEAN, resp \in Responses : TokenGetRequestFailed(ow, resp)
    \/ tpc = "idle" /\ NextDispenser

\* One shell session on a machine without a token file: token commands
\* first, one at a time, then the fetches.
NextSession ==
    \/ fpc = "idle" /\ runs = 0 /\ published = {} /\ NextToken
    \/ tpc = "idle" /\ NextFetch

InitSession == Init /\ tokenFile = Absent

\* Fetches that start from a .last the process can read and write and that
\* holds the whole-second time CheckpointT0, with a usable token file.
CheckpointT0 == 0 * Second
InitIncremental ==
    /\ Init
    /\ tokenFile = OldSecret
    /\ ckpt = CkptFile(ToRfc3339(CheckpointT0), TRUE, TRUE)
NextIncremental ==
    \/ \E title \in Titles, date \in 1..MaxTime : Publish(title, date)
    \/ \E answer \in {"null", "error"} : FetchLoginFailed(answer)
    \/ FetchSince
    \/ FetchSinceFailed
    \/ Download
    \/ \E kind \in {"status", "stream"} : DownloadFailed(kind)
    \/ WriteCheckpoint
    \/ FetchExit

Spec == Init /\ [][Next]_vars
SpecToken == InitToken /\ [][NextToken]_vars
SpecFetch == InitFetch /\ [][NextFetch]_vars
SpecRequest == InitToken /\ [][NextRequest]_vars
SpecSession == InitSession /\ [][NextSession]_vars
SpecIncremental == InitIncremental /\ [][NextIncremental]_vars


\* ===================================================================
\* Properties
\* ===================================================================
\* token_get got as far as the confirmation wait and has ended.
WaitEnded == tpc = "done" /\ barLength >= 0

\* C1: the wait ends confirmed (reported confirmed, the secret written to the
\* token file) if and only if some probe answered non-null; when every probe
\* answered null it ends with the confirmation-timeout error and the secret is
\* neither reported confirmed nor written.  Stated for the waits that probed
\* at least once and made every probe before the deadline.
C1_ConfirmedIffProbeAnswered ==
    (WaitEnded /\ probes >= 1 /\ now < expiresAt) =>
        /\ ("Token confirmed" \in tout \/ tokenWrites > 0) <=> gotId
        /\ (~gotId /\ terr # "HTTPError") =>
              /\ terr = "ConfirmationTimeoutError"
              /\ "Token confirmed" \notin tout
              /\ tokenWrites = 0

\* C9: the probes made by the wait never exceed
\* ceil((expiresAt - requestTime) / pollInterval).
C9_ProbesWithinCeiling ==
    barLength >= 0 => probes <= CeilDiv(expiresAt - requestTime, POLL_FREQUENCY)

\* C10: with a window of 5 s, an interval of 3 s and every probe answering
\* null, exactly 2 probes are made and the wait ends with the
\* confirmation-timeout error.
C10_TwoProbesThenTimeout ==
    (WaitEnded /\ expiresAt - requestTime = 5 /\ ~gotId /\ terr # "HTTPError") =>
        /\ probes = 2
        /\ terr = "ConfirmationTimeoutError"

\* --- articles fetch ----------------------------------------------------
\* The invocation got past the login check (cli.py 168-169).
PastLogin ==
    /\ fpc # "idle"
    /\ ferr # "BadArgumentUsage"
    /\ ferr # "RuntimeError"
    /\ ~(ferr = "HTTPError" /\ queries = 0)

\* The names of the files the batch was written to.
BatchFiles == {Destination(batch[i]) : i \in 1..Len(batch)}

\* C2: .last is written at most once per invocation and only after every
\* download of the batch returned; when a download fails the invocation ends
\* there and .last is what it was when the invocation started.
C2_CheckpointOnlyAfterFullBatch ==
    /\ ckptWrites <= 1
    /\ ckptWrites = 1 =>
          /\ batch # <<>>
          /\ okDownloads = Len(batch)
          /\ cdnCalls = Len(batch)
    /\ (fpc # "idle" /\ ckptWrites = 0) => ckpt = ckptBefore
    /\ ferr = "DownloadError" =>
          /\ fpc = "done"
          /\ ckptWrites = 0
          /\ ckpt = ckptBefore

\* A download failed after an earlier one of the batch had returned, with a
\* checkpoint on disk.
C2_Witness ==
    /\ ferr = "DownloadError"
    /\ okDownloads >= 1
    /\ ckptBefore.exists
    /\ ckpt = ckptBefore

\* C3: after an invocation in which every download of a non-empty batch
\* returned, .last holds the publish time of the batch's first descriptor and
\* the directory holds as many files of the batch as the batch has descriptors.
C3_OneFilePerDescriptor ==
    (fpc = "done" /\ ferr = "none" /\ batch # <<>> /\ okDownloads = Len(batch)) =>
        /\ ckpt.exists
        /\ ckpt.text = ToRfc3339(batch[1].date)
        /\ BatchFiles \subseteq files
        /\ Cardinality(BatchFiles) = Len(batch)

\* C4: after a successful invocation the scope of the next one (new
\* checkpoint + 1 second) excludes every descriptor of the batch.
C4_NextScopeExcludesBatch ==
    (fpc = "done" /\ ckptWrites = 1) =>
        \A i \in 1..Len(batch) : batch[i].date < ParseDate(ckpt.text) + Second

\* C5: the time stored in .last never decreases: a time written by an
\* invocation is at least the time .last held when the invocation started.
C5_CheckpointNeverDecreases ==
    (ckptWrites = 1 /\ ckptBefore.exists /\ Parseable(ckptBefore.text)) =>
        ParseDate(ckpt.text) >= ParseDate(ckptBefore.text)

\* C6: when the gateway answers the article query with zero descriptors the
\* invocation reports it and returns normally: .last is not written, the
\* content store is not called, no file or directory is created.
C6_EmptyBatchTouchesNothing ==
    (fpc # "idle" /\ queries = 1 /\ ferr # "HTTPError" /\ batch = <<>>) =>
        /\ fpc = "done"
        /\ ferr = "none"
        /\ fout \in {{"No new articles published since"}, {"No articles found"}}
        /\ ckptWrites = 0
        /\ ckpt = ckptBefore
        /\ cdnCalls = 0
        /\ files = filesBefore
        /\ dirExists = dirBefore

\* Bootstrap mode answered with zero descriptors where no directory existed.
C6_Witness ==
    /\ fpc = "done"
    /\ mode = "bootstrap"
    /\ queries = 1
    /\ ferr = "none"
    /\ batch = <<>>
    /\ ~dirBefore
    /\ ~dirExists

\* C7: past the login check exactly one article query is issued: the
\* bootstrap query exactly when .last is absent or unreadable, and in every
\* other case the since query with lower bound T + 1 second.
C7_ExactlyOneQuery ==
    PastLogin =>
        /\ queries = 1
        /\ mode = "bootstrap" <=> (~ckptBefore.exists \/ ~ckptBefore.r)
        /\ mode # "bootstrap" =>
              /\ mode = "since"
              /\ Parseable(ckptBefore.text)
              /\ since = ParseDate(ckptBefore.text) + Second

\* C8: a .last that is present and readable but holds no timestamp is treated
\* as an absent one: bootstrap mode, no fatal error.
C8_UnparseableMeansBootstrap ==
    (PastLogin /\ ckptBefore.exists /\ ckptBefore.r /\ ~Parseable(ckptBefore.text)) =>
        /\ mode = "bootstrap"
        /\ ferr # "ParserError"

\* --- credential and challenge request ------------------------------------
\* C11: reading the token property raises the no-credential error in every
\* state before a probe answered non-null: before any challenge was requested
\* and after a challenge request returned while confirmation is pending (no
\* probe has answered non-null and the challenge has not expired).
C11_TokenRaisesBeforeConfirmed ==
    /\ tpc = "idle" => TokenProperty(apiToken) = "RuntimeError"
    /\ (tpc \in {"bar", "loop", "probe"} /\ ~gotId /\ now < expiresAt) =>
          TokenProperty(apiToken) = "RuntimeError"

\* The four cases in which the challenge request is said to fail with
\* TokenFetchError.
FourCases(resp) ==
    \/ resp.status = "fail"
    \/ ~resp.cookie
    \/ ~resp.signIn
    \/ resp.tokenType \notin {"APP", "EMAIL_TOKEN"}

\* C12: request_token (and TokenDispenser.request) ends with TokenFetchError
\* exactly when the transport failed, the connect.sid cookie is missing, the
\* data.signIn part is missing or the tokenType is not APP or EMAIL_TOKEN.
C12_TokenFetchErrorInFourCases ==
    /\ signinResp # NoResponse =>
          (terr = "TokenFetchError" <=> FourCases(signinResp))
    /\ dResp # NoResponse =>
          (dErr = "TokenFetchError" <=> FourCases(dResp))

\* C13: no request other than signIn ever reaches the gateway from a client
\* without a token: with an empty token get_my_id raises before anything is
\* sent, and no article query and no download follows.
C13_NoRequestWithoutCredential ==
    /\ \A m \in tsent \cup fsent : m.op # "signIn" => m.token # EmptyToken
    /\ (fpc # "idle" /\ tokenFile = EmptyToken) =>
          /\ fpc = "done"
          /\ ferr = "RuntimeError"
          /\ fsent = {}
          /\ queries = 0
          /\ cdnCalls = 0

\* articles fetch ran on an empty token file and sent nothing.
C13_Witness ==
    /\ fpc = "done"
    /\ tokenFile = EmptyToken
    /\ ferr = "RuntimeError"
    /\ fsent = {}
    /\ published # {}

\* C14: token get started on an existing token file without --overwrite ends
\* in a usage error before any request is sent and leaves the file as it
\* was; an existing token file is only replaced by a run with --overwrite.
C14_OverwriteGuard ==
    /\ (tpc # "idle" /\ tokenFileBefore # Absent /\ ~overwrite) =>
          /\ tpc = "done"
          /\ terr = "BadArgumentUsage"
          /\ tsent = {}
          /\ tokenWrites = 0
          /\ tokenFile = tokenFileBefore
    /\ (tokenWrites > 0 /\ tokenFileBefore # Absent) => overwrite

\* token get was refused on an existing token file, which still holds the
\* old secret.
C14_Witness ==
    /\ tpc = "done"
    /\ terr = "BadArgumentUsage"
    /\ tokenFileBefore = OldSecret
    /\ tokenFile = OldSecret
    /\ tsent = {}

\* C15: the first probe that answers non-null ends the loop at once: from
\* then on the invocation neither sleeps nor probes, however many iterations
\* of the loop remained.
C15_FirstAnswerEndsLoop ==
    /\ [](gotId => tpc \in {"after", "done"})
    /\ [][(gotId /\ tpc = "after") =>
             (probes' = probes /\ iter' = iter /\ now' = now)]_vars

\* A probe answered non-null while iterations of the loop remained, and the
\* invocation has ended.
C15_Witness ==
    /\ tpc = "done"
    /\ gotId
    /\ iter < barLength
    /\ probes = iter

\* C16: every probe follows a full sleep and none is issued at or after
\* expiresAt.  Stated for the challenges that expire after the request was
\* sent; tpc = "probe" is the instant the probe is issued.
C16_NoProbeAtOrAfterExpiry ==
    (tpc = "probe" /\ expiresAt > requestTime) =>
        /\ probes < iter
        /\ now < expiresAt

\* C17: the articles asked of the CDN are a prefix of the batch, in the
\* batch's order and one at a time; when a download fails the invocation ends
\* there, no later article is asked for and the files of the downloads that
\* returned are still in the directory.
C17_DownloadsFormPrefix ==
    /\ Len(requested) <= Len(batch)
    /\ \A i \in 1..Len(requested) : requested[i] = batch[i].path
    /\ cdnCalls = Len(requested)
    /\ okDownloads \in {Len(requested) - 1, Len(requested)}
    /\ okDownloads < Len(requested) => ferr = "DownloadError"
    /\ ferr = "DownloadError" =>
          /\ fpc = "done"
          /\ Len(requested) = okDownloads + 1
          /\ \A i \in 1..okDownloads : Destination(batch[i]) \in files

\* A download failed while a later article of the batch was still to come.
C17_Witness ==
    /\ fpc = "done"
    /\ ferr = "DownloadError"
    /\ Len(requested) < Len(batch)

\* C18: a transport failure is not retried.  A failed probe ends token get
\* at once, nothing reported confirmed and the token file as it was; a failed
\* login check or article query ends articles fetch before any download and
\* before .last is written.
C18_TransportFailureNotRetried ==
    /\ terr = "HTTPError" =>
          /\ tpc = "done"
          /\ "Token confirmed" \notin tout
          /\ tokenWrites = 0
          /\ tokenFile = tokenFileBefore
    /\ ferr = "HTTPError" =>
          /\ fpc = "done"
          /\ queries <= 1
          /\ cdnCalls = 0
          /\ ckptWrites = 0
          /\ ckpt = ckptBefore
          /\ files = filesBefore

\* The first probe's transport failed with an iteration of the loop
\* remaining, on a machine without a token file.
C18_Witness ==
    /\ tpc = "done"
    /\ terr = "HTTPError"
    /\ probes = 1
    /\ iter < barLength
    /\ tokenFile = Absent

\* C19: a challenge request that failed leaves the token the client holds as
\* it was before the call; a client that held none still holds none and its
\* token property still raises.
C19_FailedRequestKeepsToken ==
    /\ (tpc = "done" /\ signinResp # NoResponse /\ terr # "none") =>
          /\ apiToken = EmptyToken
          /\ TokenProperty(apiToken) = "RuntimeError"
    /\ dErr # "none" =>
          /\ dToken = dBefore
          /\ dBefore = EmptyToken => TokenProperty(dToken) = "RuntimeError"

\* C20: starting from a checkpoint CheckpointT0, with whole-second publish
\* times, every article published strictly after CheckpointT0 that the
\* gateway holds when an invocation succeeds has a file in the directory.
C20_NoArticleSkipped ==
    (/\ fpc = "done"
     /\ ferr = "none"
     /\ mode = "since"
     /\ \A a \in published : a.date % Ticks = 0) =>
        \A a \in published : a.date > CheckpointT0 => Destination(a) \in files

====
